---- MODULE Spec2Model ----
(***************************************************************************)
(* Model of gcs_interface_stub.py: the NIDAR_GCS window's data fields      *)
(* (drone_states, detection_events), its 1 Hz telemetry timer and the      *)
(* update_telemetry callback, the MissionDatabase logging methods and the  *)
(* static TelemetryParser.parse_packet.  Widget layout, styling and        *)
(* painting carry no data and are left out.                                *)
(*                                                                         *)
(* Every data-handling method of the source has the body `pass`: it        *)
(* returns None, raises nothing and assigns nothing.  The operators below  *)
(* model exactly that.                                                     *)
(***************************************************************************)
EXTENDS Integers, Sequences, FiniteSets, TLC

VARIABLES drone_states,      \* NIDAR_GCS.drone_states: drone id -> DroneState
          detection_events,  \* NIDAR_GCS.detection_events: list of DetectionEvent
          telemetry_timer,   \* activity of NIDAR_GCS.telemetry_timer
          ticks,             \* number of timeout callbacks delivered so far
          db,                \* the MissionDatabase object's fields
          csv_line,          \* the last line handed to parse_packet (field list)
          parsed,            \* the outcome of that parse_packet call
          last_op            \* the operation that ran last

vars == <<drone_states, detection_events, telemetry_timer, ticks, db,
          csv_line, parsed, last_op>>

----------------------------------------------------------------------------
(* Bounds of the exploration *)

MaxTicks == 2
MaxCount == 1

----------------------------------------------------------------------------
(* Data model *)

\* Python's None / Optional[T]: an Optional is the empty set or a singleton.
None == {}
Some(x) == {x}

\* Outcome of a call that raised no exception.
NoException == "NoException"

\* The ids the window is constructed with: {1: DroneState(1), 2: DroneState(2)}.
DRONE_IDS == {1, 2}

\* @dataclass DroneState: drone_id is given, every other field has a default.
DroneState(drone_id) ==
    [drone_id        |-> drone_id,
     team_id         |-> "1000",
     mission_time    |-> "--:--:--",
     altitude        |-> 0,
     battery         |-> 0,
     lat             |-> 0,
     lon             |-> 0,
     link_status     |-> "GOOD",
     autonomy_mode   |-> "AUTO",
     geofence_breach |-> 0,
     payload_status  |-> "NONE"]

\* @dataclass DetectionEvent (confidence in hundredths: 87 is 0.87).
DetectionEvent(timestamp, drone_id, detection_type, confidence, lat, lon) ==
    [timestamp      |-> timestamp,
     drone_id       |-> drone_id,
     detection_type |-> detection_type,
     confidence     |-> confidence,
     lat            |-> lat,
     lon            |-> lon]

\* TelemetryParser.CSV_FIELDS, in wire order.
CSV_FIELDS ==
    << "DRONE_ID", "TEAM_ID", "MISSION_TIME", "PACKET_COUNT", "MODE", "STATE",
       "ALTITUDE", "TEMP", "PRESSURE", "VOLTAGE",
       "GYRO_R", "GYRO_P", "GYRO_Y", "ACCEL_R", "ACCEL_P", "ACCEL_Y",
       "MAG_R", "MAG_P", "MAG_Y", "GPS_TIME", "GPS_ALT", "LAT", "LON", "SATS",
       "BATTERY", "LINK_STATUS", "AUTONOMY_MODE", "GEOFENCE_BREACH",
       "PAYLOAD_STATUS", "DETECTION_FLAG", "DETECTION_TYPE",
       "DETECTION_CONF", "DETECTION_LAT", "DETECTION_LON", "CMD_ECHO" >>

FIELD_COUNT == Len(CSV_FIELDS)

FieldIndex(name) == CHOOSE i \in 1..FIELD_COUNT : CSV_FIELDS[i] = name

----------------------------------------------------------------------------
(* Input lines: a csv line is the list of its comma-separated fields *)

FieldCounts  == {FIELD_COUNT - 1, FIELD_COUNT, FIELD_COUNT + 1}
PacketCounts == 0..MaxCount
Batteries    == {85, 150}
DetFlags     == {0, 1}
DetTypes     == {"NONE", "CROP", "HUMAN"}
Confidences  == {87}

MakeLine(n, id, count, bat, flag, type, conf) ==
    [i \in 1..n |->
        IF i > FIELD_COUNT THEN 0
        ELSE LET f == CSV_FIELDS[i] IN
             CASE f = "DRONE_ID"       -> id
               [] f = "TEAM_ID"        -> "1000"
               [] f = "MISSION_TIME"   -> "00:00:01"
               [] f = "PACKET_COUNT"   -> count
               [] f = "BATTERY"        -> bat
               [] f = "LINK_STATUS"    -> "GOOD"
               [] f = "AUTONOMY_MODE"  -> "AUTO"
               [] f = "PAYLOAD_STATUS" -> "NONE"
               [] f = "DETECTION_FLAG" -> flag
               [] f = "DETECTION_TYPE" -> type
               [] f = "DETECTION_CONF" -> conf
               [] f = "MODE"           -> "F"
               [] f = "STATE"          -> "ASCENT"
               [] f = "GPS_TIME"       -> "00:00:01"
               [] f = "CMD_ECHO"       -> "CXON"
               [] OTHER                -> 0]

Lines ==
    { MakeLine(n, id, c, b, fl, ty, cf) :
        n \in FieldCounts, id \in DRONE_IDS, c \in PacketCounts,
        b \in Batteries, fl \in DetFlags, ty \in DetTypes, cf \in Confidences }

NoLine == << >>

----------------------------------------------------------------------------
(* The methods of the source, as functions of the object they act on *)

\* TelemetryParser.parse_packet(csv_line): the body is `pass`, so the call
\* returns None and raises nothing, whatever the line is.
parse_packet(line) == [ret |-> None, exc |-> NoException]

\* Variant of update_telemetry that really simulates a telemetry update by
\* writing demo values into the stored state of drone 1.
update_telemetry_sim(self) ==
    [self EXCEPT !.drone_states[1].battery = 85,
                 !.drone_states[1].altitude = 15]

\* NIDAR_GCS.update_telemetry(self): the body is `pass`; self is unchanged.
update_telemetry(self) == self

\* MissionDatabase.__init__(db_path = "mission_data.db").
MissionDatabase == [db_path |-> "mission_data.db"]

\* MissionDatabase.log_telemetry(self, drone_state): `pass`.
log_telemetry(self, drone_state) == self

\* MissionDatabase.log_detection(self, detection): `pass`.
log_detection(self, detection) == self

----------------------------------------------------------------------------
(* State machine *)

\* NIDAR_GCS.init_timers: QTimer(), timeout.connect(update_telemetry),
\* start(1000).  The value is the activity of telemetry_timer on return.
init_timers == "RUNNING"

\* NIDAR_GCS.__init__ has returned: the two data fields are assigned and
\* init_timers has created, connected and started the timer.
Init ==
    /\ drone_states = [d \in DRONE_IDS |-> DroneState(d)]
    /\ detection_events = << >>
    /\ telemetry_timer = init_timers
    /\ ticks = 0
    /\ db = MissionDatabase
    /\ csv_line = NoLine
    /\ parsed = parse_packet(NoLine)
    /\ last_op = "__init__"

\* The started timer times out and calls the connected slot update_telemetry.
Timeout ==
    /\ telemetry_timer = "RUNNING"
    /\ ticks < MaxTicks
    /\ LET self == update_telemetry([drone_states     |-> drone_states,
                                     detection_events |-> detection_events])
       IN  /\ drone_states' = self.drone_states
           /\ detection_events' = self.detection_events
    /\ ticks' = ticks + 1
    /\ last_op' = "update_telemetry"
    /\ UNCHANGED <<telemetry_timer, db, csv_line, parsed>>

\* A received line is handed to the static TelemetryParser.parse_packet.
ParsePacket(line) ==
    /\ csv_line' = line
    /\ parsed' = parse_packet(line)
    /\ last_op' = "parse_packet"
    /\ UNCHANGED <<drone_states, detection_events, telemetry_timer, ticks, db>>

\* MissionDatabase.log_telemetry is called with a stored DroneState.
LogTelemetry(d) ==
    /\ db' = log_telemetry(db, drone_states[d])
    /\ last_op' = "log_telemetry"
    /\ UNCHANGED <<drone_states, detection_events, telemetry_timer, ticks,
                   csv_line, parsed>>

\* MissionDatabase.log_detection is called with a DetectionEvent.
LogDetection(ev) ==
    /\ db' = log_detection(db, ev)
    /\ last_op' = "log_detection"
    /\ UNCHANGED <<drone_states, detection_events, telemetry_timer, ticks,
                   csv_line, parsed>>

Next ==
    \/ Timeout
    \/ \E line \in Lines : ParsePacket(line)
    \/ \E d \in DRONE_IDS : LogTelemetry(d)
    \/ \E d \in DRONE_IDS, ty \in DetTypes, cf \in Confidences :
          LogDetection(DetectionEvent(ticks, d, ty, cf, 0, 0))

Spec == Init /\ [][Next]_vars

----------------------------------------------------------------------------
(* Vocabulary of the properties *)

HasLine == Len(csv_line) > 0

Field(line, name) == line[FieldIndex(name)]

\* A record with fewer delimited fields than the wire format has.
ShortLine(line) == Len(line) >= 1 /\ Len(line) < FIELD_COUNT

\* A structurally valid record whose battery lies outside 0..100.
BatteryOutOfRange(line) ==
    /\ Len(line) = FIELD_COUNT
    /\ Field(line, "BATTERY") \notin 0..100

\* A record with the documented field count and every ranged value in range.
WellFormed(line) ==
    /\ Len(line) = FIELD_COUNT
    /\ Field(line, "BATTERY") \in 0..100
    /\ Field(line, "DETECTION_CONF") \in 0..100

\* A record whose detection flag is set and whose detection type is not NONE.
DetectionFlagged(line) ==
    /\ WellFormed(line)
    /\ Field(line, "DETECTION_FLAG") = 1
    /\ Field(line, "DETECTION_TYPE") # "NONE"

StoresUnchanged ==
    /\ drone_states' = drone_states
    /\ detection_events' = detection_events

----------------------------------------------------------------------------
(* Properties *)

\* C2: every record with fewer than 35 fields makes parse_packet fail with
\* the FieldCountMismatch error outcome, and the drone state store is the
\* same before and after the call.
C2_FieldCountMismatch ==
    [][ (last_op' = "parse_packet" /\ ShortLine(csv_line'))
          => (parsed'.exc = "FieldCountMismatch" /\ StoresUnchanged) ]_vars

\* C3: after a well-formed 35-field record has been decoded and the update
\* callback has run, the stored state of the record's drone id carries the
\* decoded packet count and the decoded value of every other field.
C3_RoundTrip ==
    (last_op = "update_telemetry" /\ HasLine /\ WellFormed(csv_line))
      => LET d == Field(csv_line, "DRONE_ID")
             s == drone_states[d]
         IN  /\ parsed.ret # None
             /\ s.drone_id = d
             /\ s.team_id = Field(csv_line, "TEAM_ID")
             /\ s.mission_time = Field(csv_line, "MISSION_TIME")
             /\ s.battery = Field(csv_line, "BATTERY")
             /\ "packet_count" \in DOMAIN s
             /\ s.packet_count = Field(csv_line, "PACKET_COUNT")

\* C4: a structurally valid record whose battery is outside 0..100 fails
\* decode with FieldRangeError naming BATTERY, no stored DroneState is
\* changed, and every stored battery stays within 0..100.
C4_FieldRangeError ==
    /\ [][ (last_op' = "parse_packet" /\ BatteryOutOfRange(csv_line'))
             => (parsed'.exc = "FieldRangeError{BATTERY}" /\ StoresUnchanged) ]_vars
    /\ [](\A d \in DOMAIN drone_states : drone_states[d].battery \in 0..100)

\* C5: once a record whose detection flag is set and whose type is not NONE
\* has been processed, the detection event log ends with one DetectionEvent
\* carrying the record's type and confidence.
C5_DetectionAppended ==
    (last_op = "update_telemetry" /\ HasLine /\ DetectionFlagged(csv_line))
      => /\ Len(detection_events) >= 1
         /\ detection_events[Len(detection_events)].detection_type
               = Field(csv_line, "DETECTION_TYPE")
         /\ detection_events[Len(detection_events)].confidence
               = Field(csv_line, "DETECTION_CONF")

\* C9: at start the store holds a default DroneState for drone ids 1 and 2;
\* over any sequence of timer callbacks, received packets and database calls
\* a stored DroneState changes only in a step that is a successful decode;
\* and the set of stored drone ids never changes.
C9_StoreLifecycle ==
    /\ \A d \in {1, 2} :
          /\ d \in DOMAIN drone_states
          /\ drone_states[d].drone_id = d
          /\ drone_states[d].team_id = "1000"
          /\ drone_states[d].mission_time = "--:--:--"
          /\ drone_states[d].altitude = 0
          /\ drone_states[d].battery = 0
          /\ drone_states[d].lat = 0
          /\ drone_states[d].lon = 0
          /\ drone_states[d].link_status = "GOOD"
          /\ drone_states[d].autonomy_mode = "AUTO"
          /\ drone_states[d].geofence_breach = 0
          /\ drone_states[d].payload_status = "NONE"
    /\ [][ drone_states' # drone_states
             => (last_op' = "parse_packet" /\ parsed'.ret # None) ]_vars
    /\ [](DOMAIN drone_states = {1, 2})

C9_Witness ==
    /\ ticks >= 1
    /\ HasLine
    /\ last_op = "log_telemetry"
    /\ DOMAIN drone_states = {1, 2}

====
